---- MODULE Spec2Model ----
(***************************************************************************)
(* A model of drf_yasg/codecs.py: the OpenAPI codecs (_OpenAPICodec,       *)
(* OpenAPICodecJson, OpenAPICodecYaml), the validator table VALIDATORS     *)
(* with its two validator functions, and the JSON / YAML dump rules.       *)
(*                                                                         *)
(* Python objects live in a heap: a mapping (OrderedDict) or a list is a   *)
(* node named by a reference <<arena, n>>, and a node's items hold scalars *)
(* or references to other nodes, so that aliasing, copy.deepcopy and a     *)
(* validator that mutates the object it is handed are all visible.         *)
(* Every call of encode / encode_error runs in a frame c \in Calls; the    *)
(* frame allocates in its own arena c (fresh addresses are arbitrary).     *)
(* Text is modelled at token level: a dump is the sequence of the tokens   *)
(* (punctuation, indentation, quoted or plain scalars) that the dumper     *)
(* writes.  Scalars are strings, held as the sequence of their lines.      *)
(***************************************************************************)
EXTENDS Integers, Sequences, FiniteSets, TLC

\* Number of call frames (threads calling into one codec instance).
NumCalls == 2
\* Longest list of validator names a codec is constructed with.
MaxValidators == 2

Calls == 1..NumCalls
\* The thread of the sequential specification.
MainThread == {1}

VARIABLES
  validators,  \* self._validators: the list of validator names
  codec,       \* the codec class: "json" (OpenAPICodecJson) or "yaml"
  pretty,      \* OpenAPICodecJson.pretty
  engines,     \* the third-party engines behind the validators (environment)
  heap,        \* reference -> node
  pc,          \* per frame: "idle", "loop", "call", "done"
  op,          \* per frame: the method called, "encode" or "encode_error"
  document,    \* per frame: the argument of encode / encode_error
  spec,        \* per frame: local `spec` (a reference)
  errors,      \* per frame slot: local `errors` (insertion-ordered dict)
  idx,         \* per frame: position of the for loop in self.validators
  arg,         \* per frame: the object handed to the running validator
  outcome,     \* per frame: what the call returned or raised
  produced,    \* history: content of spec right after the conversion step
  invoked,     \* history: validators invoked, with the content each was handed
  converted,   \* history: number of generate_swagger_object calls
  warnings,    \* history: records passed to logger.warning
  dumped       \* history: contents passed to _dump_dict

vars == <<validators, codec, pretty, engines, heap, pc, op, document, spec, errors,
          idx, arg, outcome, produced, invoked, converted, warnings, dumped>>

config == <<validators, codec, pretty, engines>>

-----------------------------------------------------------------------------
(* Values, nodes and documents *)

NullRef == <<0, 0>>

\* a scalar string, as the sequence of its lines
S(lines) == [t |-> "s", s |-> lines, r |-> NullRef]
\* a reference to a heap node
R(ref) == [t |-> "r", s |-> <<>>, r |-> ref]
E(k, v) == [key |-> k, val |-> v]
MapNode(items) == [t |-> "map", items |-> items]
ListNode(elems) == [t |-> "list", items |-> [j \in 1..Len(elems) |-> E("", elems[j])]]

\* Templates of object graphs: node 1 is the root, <<0, k>> names node k.
DocA ==
  << MapNode(<< E("swagger", S(<<"v2">>)), E("info", R(<<0, 2>>)),
                E("schemes", R(<<0, 3>>)), E("paths", R(<<0, 4>>)) >>),
     MapNode(<< E("title", S(<<"T">>)), E("description", S(<<"line1", "line2">>)) >>),
     ListNode(<< S(<<"https">>), S(<<"http">>) >>),
     MapNode(<< >>) >>

DocB ==
  << MapNode(<< E("paths", R(<<0, 2>>)), E("host", S(<<"h">>)) >>),
     MapNode(<< E("/b", R(<<0, 3>>)), E("/a", R(<<0, 4>>)) >>),
     MapNode(<< E("get", S(<<"g">>)) >>),
     MapNode(<< >>) >>

ErrA ==
  << MapNode(<< E("errors", R(<<0, 2>>)), E("detail", S(<<"failed">>)) >>),
     MapNode(<< E("ssv", S(<<"bad">>)), E("flex", S(<<"bad">>)) >>) >>

\* Arguments a caller may pass: cls is the Python class of the object.
SwaggerA == [cls |-> "Swagger", nodes |-> DocA]
SwaggerB == [cls |-> "Swagger", nodes |-> DocB]
PlainDict == [cls |-> "dict", nodes |-> DocB]
ErrDict == [cls |-> "dict", nodes |-> ErrA]
NoDocument == [cls |-> "NoneType", nodes |-> << >>]

EncodeInputs == {SwaggerA, SwaggerB, PlainDict}
ErrorInputs == {ErrDict}

-----------------------------------------------------------------------------
(* The heap *)

Arena(h, c) == {id \in DOMAIN h : id[1] = c}

\* a fresh address of arena c
Fresh(h, c) == <<c, Cardinality(Arena(h, c)) + 1>>

\* the heap without the objects of frame c (the frame's previous objects die)
Release(h, c) == [id \in DOMAIN h \ Arena(h, c) |-> h[id]]

Relocate(v, c, base) ==
  IF v.t = "r" THEN R(<<c, base + v.r[2]>>) ELSE v

\* SwaggerDict.as_odict(): a new OrderedDict graph with the keys of the
\* domain object in the order the object holds them.
as_odict(h, nodes, c) ==
  LET base == Cardinality(Arena(h, c))
      new == [id \in {<<c, base + k>> : k \in 1..Len(nodes)} |->
                LET n == nodes[id[2] - base]
                IN [t |-> n.t,
                    items |-> [j \in 1..Len(n.items) |->
                                 E(n.items[j].key, Relocate(n.items[j].val, c, base))]]]
  IN [heap |-> new @@ h, ref |-> <<c, base + 1>>]

generate_swagger_object(h, swagger, c) ==
  IF swagger.cls = "Swagger"
    THEN as_odict(h, swagger.nodes, c)
    ELSE [heap |-> h, ref |-> NullRef]   \* no as_odict attribute

\* copy.copy: a new root object whose items are the objects of the original
copy_copy(h, ref, c) ==
  LET id == Fresh(h, c)
  IN [heap |-> (id :> h[ref]) @@ h, ref |-> id]

RECURSIVE deepcopy(_, _, _), deepcopy_items(_, _, _, _)
\* copy.deepcopy: a new object graph, items in the same order
deepcopy(h, ref, c) ==
  LET id == Fresh(h, c)
      h1 == (id :> [t |-> h[ref].t, items |-> << >>]) @@ h
      r == deepcopy_items(h1, h[ref].items, 1, c)
  IN [heap |-> [r.heap EXCEPT ![id].items = r.items], ref |-> id]

deepcopy_items(h, items, j, c) ==
  IF j > Len(items) THEN [heap |-> h, items |-> << >>]
  ELSE LET e == items[j]
           cv == IF e.val.t = "r" THEN deepcopy(h, e.val.r, c)
                                  ELSE [heap |-> h, ref |-> NullRef]
           v == IF e.val.t = "r" THEN R(cv.ref) ELSE e.val
           rest == deepcopy_items(cv.heap, items, j + 1, c)
       IN [heap |-> rest.heap, items |-> << E(e.key, v) >> \o rest.items]

RECURSIVE Reach(_, _)
Reach(h, ref) ==
  {ref} \cup UNION {Reach(h, h[ref].items[j].val.r) :
                      j \in {k \in 1..Len(h[ref].items) : h[ref].items[k].val.t = "r"}}

HasKey(n, k) == \E j \in 1..Len(n.items) : n.items[j].key = k

-----------------------------------------------------------------------------
(* Content of an object graph, key order included (used to record history) *)

RECURSIVE Content(_, _), ContentItems(_, _, _)
Content(h, ref) ==
  << h[ref].t, "(" >> \o ContentItems(h, h[ref].items, 1) \o << ")" >>

ContentItems(h, items, j) ==
  IF j > Len(items) THEN << >>
  ELSE << "key", items[j].key >>
       \o (IF items[j].val.t = "r" THEN Content(h, items[j].val.r)
                                   ELSE << "str", "(" >> \o items[j].val.s \o << ")" >>)
       \o ContentItems(h, items, j + 1)

-----------------------------------------------------------------------------
(* Third-party validation engines (flex, swagger_spec_validator) *)

\* keys of the VALIDATORS table
Registered == {"flex", "ssv"}
\* names a codec may be configured with; "bogus" is in no table
Names == Registered \cup {"bogus"}

\* An engine is installed or not; an installed engine accepts every document,
\* rejects every document, rejects the documents that carry an x-scope key
\* ("strict"), or fails with an exception of its own ("crash"); and it may
\* annotate the document it is handed (swagger_spec_validator adds x-scope).
EngineStates ==
  {[installed |-> FALSE, mode |-> "accept", mutates |-> FALSE]}
  \cup [installed : {TRUE}, mode : {"accept", "reject", "strict", "crash"},
        mutates : BOOLEAN]

Returns == [res |-> "return", exc |-> "", msg |-> ""]
Raises(type, msg) == [res |-> "raise", exc |-> type, msg |-> msg]

Scoped(h, ref) == \E id \in Reach(h, ref) : HasKey(h[id], "x-scope")

\* what an installed engine does to the object it validates
add_x_scope(h, ref) ==
  [id \in DOMAIN h |->
     IF id \in Reach(h, ref) /\ h[id].t = "map"
       THEN [h[id] EXCEPT !.items = Append(@, E("x-scope", S(<<"scope">>)))]
       ELSE h[id]]

\* the verdict of an installed engine; failure is the engine's own exception type
engine_verdict(e, failure, who, scoped) ==
  CASE e.mode = "accept" -> Returns
    [] e.mode = "reject" -> Raises(failure, who \o " rejects the document")
    [] e.mode = "strict" -> IF scoped THEN Raises(failure, who \o " found x-scope")
                                      ELSE Returns
    [] e.mode = "crash"  -> Raises("RuntimeError", who \o " crashed")

_validate_flex(e, scoped) ==
  IF ~e.installed THEN Returns                     \* except ImportError: return
  ELSE LET r == engine_verdict(e, "flex.ValidationError", "flex", scoped)
       IN IF r.res = "raise" /\ r.exc = "flex.ValidationError"
            THEN Raises("SwaggerValidationError", r.msg)
            ELSE r

_validate_swagger_spec_validator(e, scoped) ==
  IF ~e.installed THEN Raises("ImportError", "No module named swagger_spec_validator")
  ELSE LET r == engine_verdict(e, "ssv.SwaggerValidationError", "ssv", scoped)
       IN IF r.res = "raise" /\ r.exc = "ssv.SwaggerValidationError"
            THEN Raises("SwaggerValidationError", r.msg)
            ELSE r

VALIDATORS(name, e, scoped) ==
  CASE name = "flex" -> _validate_flex(e, scoped)
    [] name = "ssv"  -> _validate_swagger_spec_validator(e, scoped)

-----------------------------------------------------------------------------
(* The dump rules *)

RECURSIVE Spaces(_)
Spaces(n) == IF n = 0 THEN "" ELSE " " \o Spaces(n - 1)

RECURSIVE JoinLines(_, _)
JoinLines(lines, sep) ==
  IF Len(lines) = 0 THEN ""
  ELSE IF Len(lines) = 1 THEN lines[1]
  ELSE lines[1] \o sep \o JoinLines(Tail(lines), sep)

Quote(s) == "\"" \o s \o "\""

\* indent=4 of the pretty JSON dump
JsonIndent == 4

\* json.dumps: a string, its line breaks escaped
json_str(lines) == Quote(JoinLines(lines, "\\n"))

\* json.dumps writes a line break and the indentation only when indent is set
json_newline(indent, level) ==
  IF indent < 0 THEN << >> ELSE << "\n", Spaces(indent * level) >>

RECURSIVE json_value(_, _, _, _, _), json_items(_, _, _, _, _, _)
\* json.dumps(value, indent, separators, ensure_ascii=False); indent < 0 is None.
\* A dict is written in the iteration order of its items.
json_value(h, v, indent, item_sep, level) ==
  IF v.t = "s" THEN << json_str(v.s) >>
  ELSE LET n == h[v.r]
           open == IF n.t = "map" THEN "{" ELSE "["
           close == IF n.t = "map" THEN "}" ELSE "]"
       IN IF Len(n.items) = 0 THEN << open \o close >>
          ELSE << open >> \o json_items(h, n, 1, indent, item_sep, level + 1)
               \o json_newline(indent, level) \o << close >>

json_items(h, n, j, indent, item_sep, level) ==
  IF j > Len(n.items) THEN << >>
  ELSE (IF j > 1 THEN << item_sep >> ELSE << >>)
       \o json_newline(indent, level)
       \o (IF n.t = "map" THEN << Quote(n.items[j].key), ": " >> ELSE << >>)
       \o json_value(h, n.items[j].val, indent, item_sep, level)
       \o json_items(h, n, j + 1, indent, item_sep, level)

\* OpenAPICodecJson._dump_dict: returns str
OpenAPICodecJson_dump_dict(isPretty, h, ref) ==
  IF isPretty
    THEN LET out == json_value(h, R(ref), JsonIndent, ",", 0)
         IN [type |-> "str",
             text |-> IF out[Len(out)] # "\n" THEN Append(out, "\n") ELSE out]
    ELSE [type |-> "str", text |-> json_value(h, R(ref), -1, ", ", 0)]

\* the keys of the documents, in alphabetical order (what sorted() compares by)
Alphabet == << "/a", "/b", "description", "detail", "errors", "flex", "get", "host",
               "info", "paths", "schemes", "ssv", "swagger", "title", "x-scope" >>
Rank(k) == CHOOSE j \in 1..Len(Alphabet) : Alphabet[j] = k

RECURSIVE represent_dict_sorted(_, _)
\* SafeRepresenter.represent_dict: the pairs sorted by key
represent_dict_sorted(items, j) ==
  IF j > Len(items) THEN << >>
  ELSE LET i == CHOOSE i \in 1..Len(items) :
                  Cardinality({k \in 1..Len(items) :
                                 Rank(items[k].key) < Rank(items[i].key)}) = j - 1
       IN << items[i] >> \o represent_dict_sorted(items, j + 1)

RECURSIVE represent_odict(_, _)
\* SaneYamlDumper.represent_odict: the (key, value) pairs of the MappingNode,
\* appended in the iteration order of mapping.items()
represent_odict(items, j) ==
  IF j > Len(items) THEN << >>
  ELSE << items[j] >> \o represent_odict(items, j + 1)

\* SaneYamlDumper.represent_text: literal block style for a text with a line break
represent_text(lines, ind) ==
  IF Len(lines) > 1
    THEN << " ", "|-", "\n" >>
         \o [j \in 1..(3 * Len(lines)) |->
               CASE j % 3 = 1 -> Spaces(ind + 2)
                 [] j % 3 = 2 -> lines[(j + 1) \div 3]
                 [] j % 3 = 0 -> "\n"]
    ELSE << " ", JoinLines(lines, ""), "\n" >>

RECURSIVE yaml_mapping(_, _, _, _), yaml_value(_, _, _), yaml_sequence(_, _, _, _)
\* the block-style emitter (default_flow_style=False, no aliases): the entries
\* of a MappingNode at indentation ind
yaml_mapping(h, pairs, j, ind) ==
  IF j > Len(pairs) THEN << >>
  ELSE << Spaces(ind), pairs[j].key, ":" >>
       \o yaml_value(h, pairs[j].val, ind)
       \o yaml_mapping(h, pairs, j + 1, ind)

\* what follows "key:"; increase_indent(indentless=False) indents the items
\* of a sequence under their key
yaml_value(h, v, ind) ==
  IF v.t = "s" THEN represent_text(v.s, ind)
  ELSE LET n == h[v.r]
       IN IF n.t = "map"
            THEN IF Len(n.items) = 0 THEN << " ", "{}", "\n" >>
                 ELSE << "\n" >> \o yaml_mapping(h, represent_odict(n.items, 1), 1, ind + 2)
            ELSE IF Len(n.items) = 0 THEN << " ", "[]", "\n" >>
                 ELSE << "\n" >> \o yaml_sequence(h, n.items, 1, ind + 2)

yaml_sequence(h, items, j, ind) ==
  IF j > Len(items) THEN << >>
  ELSE << Spaces(ind), "-" >>
       \o yaml_value(h, items[j].val, ind)
       \o yaml_sequence(h, items, j + 1, ind)

\* yaml_sane_dump(data, binary): bytes when binary, else str
yaml_sane_dump(h, ref, binary) ==
  [type |-> IF binary THEN "bytes" ELSE "str",
   text |-> IF Len(h[ref].items) = 0 THEN << "{}", "\n" >>
            ELSE yaml_mapping(h, represent_odict(h[ref].items, 1), 1, 0)]

\* OpenAPICodecYaml._dump_dict
OpenAPICodecYaml_dump_dict(h, ref) == yaml_sane_dump(h, ref, TRUE)

\* self._dump_dict(spec), dispatched on the codec class
_dump_dict(cls, isPretty, h, ref) ==
  IF cls = "json" THEN OpenAPICodecJson_dump_dict(isPretty, h, ref)
                  ELSE OpenAPICodecYaml_dump_dict(h, ref)

\* coreapi.compat.force_bytes: text is encoded, bytes are returned as they are
force_bytes(x) == [type |-> "bytes", text |-> x.text]

-----------------------------------------------------------------------------
(* Outcomes of a call *)

NoOutcome ==
  [kind |-> "none", exc |-> "", msg |-> << >>, errors |-> << >>,
   spec |-> NullRef, type |-> "", data |-> << >>]

\* return force_bytes(...)
Returned(b) == [NoOutcome EXCEPT !.kind = "return", !.type = b.type, !.data = b.text]

\* an exception leaving encode: its class and its message
Raised(exc, msg) == [NoOutcome EXCEPT !.kind = "raise", !.exc = exc, !.msg = msg]

\* d = {k: v}: the dict is replaced, not updated
DictReplace(d, k, v) == << [name |-> k, msg |-> v] >>

\* an insertion-ordered dict as a sequence of entries; d[k] = v
DictSet(d, k, v) ==
  IF \E j \in 1..Len(d) : d[j].name = k
    THEN [j \in 1..Len(d) |-> IF d[j].name = k THEN [name |-> k, msg |-> v] ELSE d[j]]
    ELSE Append(d, [name |-> k, msg |-> v])

RECURSIVE dict_items_repr(_, _)
dict_items_repr(d, j) ==
  IF j > Len(d) THEN << >>
  ELSE (IF j > 1 THEN << ", " >> ELSE << >>)
       \o << "'" \o d[j].name \o "'", ": ", "'" \o d[j].msg \o "'" >>
       \o dict_items_repr(d, j + 1)

\* "spec validation failed: {}".format(errors)
failure_message(d) ==
  << "spec validation failed: ", "{" >> \o dict_items_repr(d, 1) \o << "}" >>

\* SwaggerValidationError(msg, errors, spec, self)
SwaggerValidationError(d, ref) ==
  [NoOutcome EXCEPT !.kind = "raise", !.exc = "SwaggerValidationError",
                    !.msg = failure_message(d), !.errors = d, !.spec = ref]

-----------------------------------------------------------------------------
(* _OpenAPICodec *)

\* isinstance(document, dict): openapi.Swagger is a dict subclass
isinstance_dict(d) == d.cls \in {"Swagger", "dict"}

\* isinstance(document, openapi.Swagger)
isinstance_Swagger(d) == d.cls = "Swagger"

\* except Exception
CaughtAny(r) == TRUE

\* except SwaggerValidationError: the exceptions the loop of encode catches
Caught(r) == r.exc = "SwaggerValidationError"

\* `if errors is not None:`
IsNotNone(d) == TRUE

\* `if errors:`
Truthy(d) == Len(d) > 0

\* self.errors: one dict of the codec instance, shared by every frame
SharedErrorsSlot(c) == 1

\* `errors` is a local of encode: every frame has its own
ErrorsSlot(c) == c

Init ==
  /\ validators \in UNION {[1..n -> Names] : n \in 0..MaxValidators}
  /\ codec \in {"json", "yaml"}
  /\ pretty \in BOOLEAN
  /\ codec = "yaml" => ~pretty
  /\ engines \in [Registered -> EngineStates]
  /\ heap = << >>
  /\ pc = [c \in Calls |-> "idle"]
  /\ op = [c \in Calls |-> ""]
  /\ document = [c \in Calls |-> NoDocument]
  /\ spec = [c \in Calls |-> NullRef]
  /\ errors = [c \in Calls |-> << >>]
  /\ idx = [c \in Calls |-> 0]
  /\ arg = [c \in Calls |-> NullRef]
  /\ outcome = [c \in Calls |-> NoOutcome]
  /\ produced = [c \in Calls |-> << >>]
  /\ invoked = [c \in Calls |-> << >>]
  /\ converted = [c \in Calls |-> 0]
  /\ warnings = [c \in Calls |-> << >>]
  /\ dumped = [c \in Calls |-> << >>]

\* a call enters with a new frame; what the frame's previous call left is dropped
NewFrame(c, d, o) ==
  /\ pc[c] \in {"idle", "done"}
  /\ op' = [op EXCEPT ![c] = o]
  /\ document' = [document EXCEPT ![c] = d]
  /\ arg' = [arg EXCEPT ![c] = NullRef]
  /\ invoked' = [invoked EXCEPT ![c] = << >>]
  /\ warnings' = [warnings EXCEPT ![c] = << >>]

\* the body of encode up to the loop, lines 67-71: the type check, the conversion, errors = {}
encode_begin(c, d, o) ==
  /\ NewFrame(c, d, o)
  /\ dumped' = [dumped EXCEPT ![c] = << >>]
  /\ IF ~isinstance_Swagger(d)
       THEN /\ outcome' = [outcome EXCEPT ![c] =
                 Raised("TypeError", << "Expected a openapi.Swagger instance" >>)]
            /\ pc' = [pc EXCEPT ![c] = "done"]
            /\ heap' = Release(heap, c)
            /\ spec' = [spec EXCEPT ![c] = NullRef]
            /\ produced' = [produced EXCEPT ![c] = << >>]
            /\ converted' = [converted EXCEPT ![c] = 0]
            /\ idx' = [idx EXCEPT ![c] = 0]
            /\ UNCHANGED errors
       ELSE LET g == generate_swagger_object(Release(heap, c), d, c)
            IN /\ converted' = [converted EXCEPT ![c] = 1]
               /\ heap' = g.heap
               /\ spec' = [spec EXCEPT ![c] = g.ref]
               /\ IF g.ref = NullRef
                    THEN /\ outcome' = [outcome EXCEPT ![c] =
                              Raised("AttributeError", << "as_odict" >>)]
                         /\ pc' = [pc EXCEPT ![c] = "done"]
                         /\ produced' = [produced EXCEPT ![c] = << >>]
                         /\ idx' = [idx EXCEPT ![c] = 0]
                         /\ UNCHANGED errors
                    ELSE /\ outcome' = [outcome EXCEPT ![c] = NoOutcome]
                         /\ pc' = [pc EXCEPT ![c] = "loop"]
                         /\ produced' = [produced EXCEPT ![c] = Content(g.heap, g.ref)]
                         /\ errors' = [errors EXCEPT ![ErrorsSlot(c)] = << >>]
                         /\ idx' = [idx EXCEPT ![c] = 1]
  /\ UNCHANGED config

encode_enter(c, d) == encode_begin(c, d, "encode")

\* encode, line 76 up to the call: VALIDATORS[validator], then copy.deepcopy(spec)
encode_lookup(c) ==
  /\ pc[c] = "loop"
  /\ idx[c] <= Len(validators)
  /\ IF validators[idx[c]] \notin Registered
       THEN /\ outcome' = [outcome EXCEPT ![c] =
                 Raised("KeyError", << validators[idx[c]] >>)]
            /\ pc' = [pc EXCEPT ![c] = "done"]
            /\ UNCHANGED <<heap, arg>>
       ELSE LET cp == deepcopy(heap, spec[c], c)
            IN /\ heap' = cp.heap
               /\ arg' = [arg EXCEPT ![c] = cp.ref]
               /\ pc' = [pc EXCEPT ![c] = "call"]
               /\ UNCHANGED outcome
  /\ UNCHANGED <<config, op, document, spec, errors, idx, produced, invoked,
                 converted, warnings, dumped>>

\* encode, lines 76-78: the validator runs on the object it was handed; a
\* SwaggerValidationError is recorded, any other exception leaves encode
validator_run(c) ==
  /\ pc[c] = "call"
  /\ LET name == validators[idx[c]]
         e == engines[name]
         r == VALIDATORS(name, e, Scoped(heap, arg[c]))
     IN /\ invoked' = [invoked EXCEPT ![c] =
              Append(@, [name |-> name, seen |-> Content(heap, arg[c]), result |-> r])]
        /\ heap' = IF e.installed /\ e.mutates THEN add_x_scope(heap, arg[c]) ELSE heap
        /\ arg' = [arg EXCEPT ![c] = NullRef]
        /\ IF r.res = "raise" /\ ~Caught(r)
             THEN /\ outcome' = [outcome EXCEPT ![c] = Raised(r.exc, << r.msg >>)]
                  /\ pc' = [pc EXCEPT ![c] = "done"]
                  /\ UNCHANGED <<errors, idx>>
             ELSE /\ errors' = IF r.res = "raise"
                                 THEN [errors EXCEPT ![ErrorsSlot(c)] = DictSet(@, name, r.msg)]
                                 ELSE errors
                  /\ idx' = [idx EXCEPT ![c] = @ + 1]
                  /\ pc' = [pc EXCEPT ![c] = "loop"]
                  /\ UNCHANGED outcome
  /\ UNCHANGED <<config, op, document, spec, produced, converted, warnings, dumped>>

\* encode, lines 80-87: raise the aggregated error, or dump
encode_finish(c) ==
  /\ pc[c] = "loop"
  /\ idx[c] > Len(validators)
  /\ IF Truthy(errors[ErrorsSlot(c)])
       THEN LET exc == SwaggerValidationError(errors[ErrorsSlot(c)], spec[c])
            IN /\ warnings' = [warnings EXCEPT ![c] = Append(@, exc.msg)]
               /\ outcome' = [outcome EXCEPT ![c] = exc]
               /\ UNCHANGED dumped
       ELSE /\ dumped' = [dumped EXCEPT ![c] = Append(@, Content(heap, spec[c]))]
            /\ outcome' = [outcome EXCEPT ![c] =
                 Returned(force_bytes(_dump_dict(codec, pretty, heap, spec[c])))]
            /\ UNCHANGED warnings
  /\ pc' = [pc EXCEPT ![c] = "done"]
  /\ UNCHANGED <<config, op, heap, document, spec, errors, idx, arg, produced,
                 invoked, converted>>

\* return self.encode(err)
encode_error_via_encode(c, d) == encode_begin(c, d, "encode_error")

\* encode_error, line 91: the mapping of the caller is dumped as it is
encode_error(c, d) ==
  /\ NewFrame(c, d, "encode_error")
  /\ LET g == as_odict(Release(heap, c), d.nodes, c)   \* the caller's dict
     IN /\ heap' = g.heap
        /\ spec' = [spec EXCEPT ![c] = g.ref]
        /\ dumped' = [dumped EXCEPT ![c] = << Content(g.heap, g.ref) >>]
        /\ outcome' = [outcome EXCEPT ![c] =
             Returned(force_bytes(_dump_dict(codec, pretty, g.heap, g.ref)))]
  /\ pc' = [pc EXCEPT ![c] = "done"]
  /\ idx' = [idx EXCEPT ![c] = 0]
  /\ produced' = [produced EXCEPT ![c] = << >>]
  /\ converted' = [converted EXCEPT ![c] = 0]
  /\ UNCHANGED <<config, errors>>

\* one thread calls into the codec, one call after the other
Next ==
  \E c \in MainThread :
    \/ \E d \in EncodeInputs : encode_enter(c, d)
    \/ encode_lookup(c)
    \/ validator_run(c)
    \/ encode_finish(c)
    \/ \E d \in ErrorInputs : encode_error(c, d)

Spec == Init /\ [][Next]_vars


\* the inputs of the concurrent specification
ConcInputs == {SwaggerA, PlainDict}

\* the concurrent specification starts from the codecs whose validators are
\* registered, with a flex that rejects (always, or what carries x-scope) and
\* an ssv that annotates what it is handed, or crashes
InitConc ==
  /\ Init
  /\ codec = "json" /\ ~pretty
  /\ \A j \in 1..Len(validators) : validators[j] \in Registered
  /\ engines["flex"] \in [installed : {TRUE}, mode : {"reject", "strict"},
                           mutates : {FALSE}]
  /\ engines["ssv"] \in
       [installed : {TRUE}, mode : {"accept", "reject"}, mutates : {TRUE}]
       \cup [installed : {TRUE}, mode : {"crash"}, mutates : {FALSE}]

\* several threads call into the same codec instance; their steps interleave
NextConc ==
  \E c \in Calls :
    \/ \E d \in ConcInputs : encode_enter(c, d)
    \/ encode_lookup(c)
    \/ validator_run(c)
    \/ encode_finish(c)
    \/ \E d \in ErrorInputs : encode_error(c, d)

SpecConc == InitConc /\ [][NextConc]_vars

-----------------------------------------------------------------------------
(* Properties *)

Done(c) == pc[c] = "done"
\* a call of encode on a domain specification object
EncodeCall(c) == op[c] = "encode" /\ document[c].cls = "Swagger"
\* a validator raised the recognized failure / anything else
Failed(r) == r.res = "raise" /\ r.exc = "SwaggerValidationError"
Defect(r) == r.res = "raise" /\ r.exc # "SwaggerValidationError"
\* a registered validator that returns normally or raises the recognized failure
WellBehaved(name) ==
  /\ name \in Registered
  /\ \A sc \in BOOLEAN : ~Defect(VALIDATORS(name, engines[name], sc))
AnyFailed(c) == \E j \in 1..Len(invoked[c]) : Failed(invoked[c][j].result)
\* every configured validator was invoked and none raised a defect
AllRan(c) ==
  /\ Len(invoked[c]) = Len(validators)
  /\ \A j \in 1..Len(invoked[c]) : ~Defect(invoked[c][j].result)

\* C1: in an encode call whose validators are all registered and well behaved,
\* every validator of the list is invoked, in list order, and the report of the
\* raised error has exactly one entry per failing validator, keyed by its name
\* and holding its message, and none for a validator that succeeded.
AggregationComplete ==
  \A c \in Calls :
    (Done(c) /\ EncodeCall(c)
       /\ \A j \in 1..Len(validators) : WellBehaved(validators[j]))
    => LET inv == invoked[c]
           failing == {inv[j].name : j \in {k \in 1..Len(inv) : Failed(inv[k].result)}}
           report == outcome[c].errors
       IN /\ Len(inv) = Len(validators)
          /\ \A j \in 1..Len(inv) : inv[j].name = validators[j]
          /\ {report[j].name : j \in 1..Len(report)} = failing
          /\ Len(report) = Cardinality(failing)
          /\ \A j \in 1..Len(report) : \A k \in 1..Len(inv) :
               inv[k].name = report[j].name
                 => Failed(inv[k].result) /\ report[j].msg = inv[k].result.msg
          /\ failing # {} => outcome[c].kind = "raise"
                             /\ outcome[c].exc = "SwaggerValidationError"

\* a failing validator followed by one that succeeds
AggregationWitness ==
  \E c \in Calls :
    /\ Done(c) /\ EncodeCall(c)
    /\ \A j \in 1..Len(validators) : WellBehaved(validators[j])
    /\ Len(invoked[c]) = 2
    /\ Failed(invoked[c][1].result)
    /\ invoked[c][2].result.res = "return"
    /\ Len(outcome[c].errors) = 1

\* C2: the canonical document of an encode call always has the content and the
\* key order the conversion produced; every validator is handed an object graph
\* that shares nothing with it and has that same content; what is dumped, or
\* attached to the raised error, is that content.
CanonicalUnchanged ==
  \A c \in Calls :
    (op[c] = "encode" /\ spec[c] # NullRef)
    => /\ Content(heap, spec[c]) = produced[c]
       /\ \A j \in 1..Len(invoked[c]) : invoked[c][j].seen = produced[c]
       /\ pc[c] = "call" => Reach(heap, arg[c]) \cap Reach(heap, spec[c]) = {}
       /\ outcome[c].kind = "return" => dumped[c] = << produced[c] >>
       /\ outcome[c].exc = "SwaggerValidationError"
            => Content(heap, outcome[c].spec) = produced[c]

\* two validators ran, the first one mutated what it was handed, and encode returned
CanonicalWitness ==
  \E c \in Calls :
    /\ Done(c) /\ EncodeCall(c) /\ outcome[c].kind = "return"
    /\ Len(invoked[c]) = 2
    /\ engines[invoked[c][1].name].installed
    /\ engines[invoked[c][1].name].mutates
    /\ engines[invoked[c][2].name].mode = "strict"

\* C3 as stated: whenever a validator raised the recognized failure, encode
\* raises the aggregated error and dumps nothing; whenever the report is empty,
\* encode returns the dump.  (Stated here for the codecs whose validators are
\* all registered and whose engines are all installed.)
FailureAlwaysAggregated ==
  \A c \in Calls :
    (Done(c) /\ EncodeCall(c)
       /\ \A j \in 1..Len(validators) :
            validators[j] \in Registered /\ engines[validators[j]].installed)
    => /\ AnyFailed(c) => /\ outcome[c].exc = "SwaggerValidationError"
                          /\ dumped[c] = << >>
       /\ errors[ErrorsSlot(c)] = << >> => outcome[c].kind = "return"

\* C3, amended: encode dumps only after every validator ran and only with an
\* empty report; when every validator ran (none raised anything else and no
\* name was unknown), a failure makes encode raise the aggregated error without
\* dumping, and no failure makes it return the dump of the converted document.
SerializationGated ==
  \A c \in Calls :
    (Done(c) /\ EncodeCall(c))
    => /\ (dumped[c] # << >> \/ outcome[c].kind = "return")
            => AllRan(c) /\ ~AnyFailed(c)
       /\ AnyFailed(c) => outcome[c].kind = "raise" /\ dumped[c] = << >>
       /\ (AllRan(c) /\ AnyFailed(c))
            => /\ outcome[c].exc = "SwaggerValidationError"
               /\ outcome[c].errors # << >>
               /\ outcome[c].data = << >>
       /\ (AllRan(c) /\ ~AnyFailed(c))
            => /\ outcome[c].kind = "return"
               /\ outcome[c].type = "bytes"
               /\ dumped[c] = << produced[c] >>

\* a call whose first validator failed and whose second one succeeded
SerializationWitness ==
  \E c \in Calls :
    /\ Done(c) /\ EncodeCall(c) /\ AllRan(c)
    /\ Len(invoked[c]) = 2
    /\ Failed(invoked[c][1].result)
    /\ ~Failed(invoked[c][2].result)
    /\ outcome[c].exc = "SwaggerValidationError"

\* C4 as stated: a validator whose engine is not installed returns normally,
\* and encode does not fail because of the missing engine.
MissingEngineIsNoOp ==
  \A c \in Calls :
    /\ \A j \in 1..Len(invoked[c]) :
         ~engines[invoked[c][j].name].installed
           => invoked[c][j].result.res = "return"
    /\ outcome[c].exc # "ImportError"

\* C5 as stated: an encode call of a codec configured with a name that is in
\* no table fails with UnknownValidatorError.
UnknownNameRejected ==
  \A c \in Calls :
    (Done(c) /\ EncodeCall(c)
       /\ \E j \in 1..Len(validators) : validators[j] \notin Registered)
    => outcome[c].kind = "raise" /\ outcome[c].exc = "UnknownValidatorError"

\* C6: when a validator raises anything but the recognized failure, the call
\* ends there with that exception, its class and message unchanged; no report
\* carries it, nothing is dumped and no warning is logged.
DefectPropagates ==
  \A c \in Calls : \A j \in 1..Len(invoked[c]) :
    Defect(invoked[c][j].result)
    => /\ Done(c)
       /\ j = Len(invoked[c])
       /\ outcome[c] = Raised(invoked[c][j].result.exc, << invoked[c][j].result.msg >>)
       /\ outcome[c].errors = << >>
       /\ dumped[c] = << >>
       /\ warnings[c] = << >>

\* an engine crashed after an earlier validator had failed
DefectWitness ==
  \E c \in Calls :
    /\ Done(c) /\ Len(invoked[c]) = 2
    /\ Failed(invoked[c][1].result)
    /\ invoked[c][2].result.exc = "RuntimeError"
    /\ outcome[c].exc = "RuntimeError"


RECURSIVE alone_loop(_, _, _)
\* what encode(d) of this codec returns or raises when nothing else runs: the
\* validators in list order, each on a copy of the converted document
alone_loop(d, j, errs) ==
  IF j > Len(validators)
    THEN IF Len(errs) > 0
           THEN SwaggerValidationError(errs, NullRef)
           ELSE LET g == as_odict(<< >>, d.nodes, 0)
                IN Returned(force_bytes(_dump_dict(codec, pretty, g.heap, g.ref)))
  ELSE IF validators[j] \notin Registered THEN Raised("KeyError", << validators[j] >>)
  ELSE LET r == VALIDATORS(validators[j], engines[validators[j]], FALSE)
       IN IF Defect(r) THEN Raised(r.exc, << r.msg >>)
          ELSE alone_loop(d, j + 1,
                          IF Failed(r) THEN DictSet(errs, validators[j], r.msg) ELSE errs)

Alone(c) ==
  IF op[c] = "encode_error"
    THEN LET g == as_odict(<< >>, document[c].nodes, 0)
         IN Returned(force_bytes(_dump_dict(codec, pretty, g.heap, g.ref)))
  ELSE IF document[c].cls # "Swagger"
    THEN Raised("TypeError", << "Expected a openapi.Swagger instance" >>)
  ELSE alone_loop(document[c], 1, << >>)

SameOutcome(c) ==
  /\ [outcome[c] EXCEPT !.spec = NullRef] = Alone(c)
  /\ outcome[c].spec # NullRef
       => LET g == as_odict(<< >>, document[c].nodes, 0)
          IN Content(heap, outcome[c].spec) = Content(g.heap, g.ref)

\* C7: under every interleaving of the calls of several threads into one codec,
\* each finished call has the outcome the same call has when it runs alone, and
\* no step changes the codec's list of validators.
NoInterference ==
  /\ [](\A c \in Calls : Done(c) => SameOutcome(c))
  /\ [][validators' = validators]_vars

\* two encode calls are inside the validator loop at once, one of them past a
\* failure, with a validator that mutates what it is handed
InterleavedWitness ==
  \E c1, c2 \in Calls :
    /\ c1 # c2
    /\ pc[c1] = "call" /\ pc[c2] = "loop"
    /\ idx[c2] = 2 /\ errors[ErrorsSlot(c2)] # << >>
    /\ engines["ssv"].mutates
    /\ \E j \in 1..Len(validators) : validators[j] = "ssv"

-----------------------------------------------------------------------------
(* Keys of a dump, in the order they are written, with their mapping depth *)

RECURSIVE json_keys(_, _, _)
\* in JSON text a key is what precedes ": "; braces give the depth
json_keys(toks, j, depth) ==
  IF j > Len(toks) THEN << >>
  ELSE (IF j < Len(toks) /\ toks[j + 1] = ": "
          THEN << [d |-> depth, k |-> toks[j]] >> ELSE << >>)
       \o json_keys(toks, j + 1,
                    IF toks[j] = "{" THEN depth + 1
                    ELSE IF toks[j] = "}" THEN depth - 1 ELSE depth)

RECURSIVE yaml_keys(_, _)
\* in block YAML a key opens a line, after the indentation and before ":"
yaml_keys(toks, j) ==
  IF j > Len(toks) THEN << >>
  ELSE (IF (j = 1 \/ toks[j - 1] = "\n") /\ j + 2 <= Len(toks) /\ toks[j + 2] = ":"
          THEN << [d |-> (Len(toks[j]) \div 2) + 1, k |-> toks[j + 1]] >> ELSE << >>)
       \o yaml_keys(toks, j + 1)

DumpKeys(toks) == IF codec = "json" THEN json_keys(toks, 1, 0) ELSE yaml_keys(toks, 1)

RECURSIVE DocKeys(_, _, _, _)
\* the keys of a domain object from item j of node k on, in the order the
\* object holds them, nested mappings in place
DocKeys(nodes, k, j, depth) ==
  IF j > Len(nodes[k].items) THEN << >>
  ELSE LET e == nodes[k].items[j]
           child == e.val.r[2]
       IN (IF nodes[k].t = "map"
             THEN << [d |-> depth, k |-> IF codec = "json" THEN Quote(e.key) ELSE e.key] >>
             ELSE << >>)
          \o (IF e.val.t = "r"
                THEN DocKeys(nodes, child, 1,
                             IF nodes[child].t = "map" THEN depth + 1 ELSE depth)
                ELSE << >>)
          \o DocKeys(nodes, k, j + 1, depth)

\* C8: encode_error invokes no validator and no conversion, whatever the
\* codec's validators, and returns as bytes the dump of the mapping it was given.
ErrorEncodingUnvalidated ==
  \A c \in Calls :
    (op[c] = "encode_error" /\ pc[c] # "idle")
    => /\ Done(c)
       /\ invoked[c] = << >>
       /\ converted[c] = 0
       /\ warnings[c] = << >>
       /\ outcome[c].kind = "return"
       /\ outcome[c].type = "bytes"
       /\ dumped[c] = << Content(heap, spec[c]) >>
       /\ DumpKeys(outcome[c].data) = DocKeys(document[c].nodes, 1, 1, 1)

\* encode_error of a codec whose validators are an unknown name and a crashing engine
ErrorEncodingWitness ==
  \E c \in Calls :
    /\ op[c] = "encode_error" /\ Done(c)
    /\ validators = << "bogus", "flex" >>
    /\ engines["flex"].installed /\ engines["flex"].mode = "crash"
    /\ outcome[c].kind = "return"

\* C9: encode of anything that is no domain specification object raises
\* TypeError at once: no conversion, no validator, no warning, no dump.
TypeCheckedFirst ==
  \A c \in Calls :
    (op[c] = "encode" /\ pc[c] # "idle" /\ document[c].cls # "Swagger")
    => /\ Done(c)
       /\ outcome[c].kind = "raise" /\ outcome[c].exc = "TypeError"
       /\ converted[c] = 0
       /\ Arena(heap, c) = {}
       /\ invoked[c] = << >>
       /\ warnings[c] = << >>
       /\ dumped[c] = << >>

\* encode was called with a plain dict on a codec that has validators
TypeCheckedWitness ==
  \E c \in Calls :
    /\ op[c] = "encode" /\ Done(c) /\ document[c].cls = "dict"
    /\ Len(validators) > 0
    /\ outcome[c].exc = "TypeError"

\* C10: the bytes a successful encode returns hold the keys of the domain
\* object in the object's order at every mapping level, each key once, in
\* compact JSON, pretty JSON and YAML.
KeyOrderPreserved ==
  \A c \in Calls :
    (Done(c) /\ EncodeCall(c) /\ outcome[c].kind = "return")
    => DumpKeys(outcome[c].data) = DocKeys(document[c].nodes, 1, 1, 1)

\* a YAML encode of a document with nested mappings, validated by an engine
\* that mutates what it is handed
KeyOrderWitness ==
  \E c \in Calls :
    /\ Done(c) /\ EncodeCall(c) /\ outcome[c].kind = "return"
    /\ codec = "yaml"
    /\ document[c] = SwaggerB
    /\ Len(invoked[c]) = 2
    /\ \E j \in 1..2 : engines[invoked[c][j].name].mutates
                      /\ engines[invoked[c][j].name].installed

====
